---- MODULE Spec2Model ----
(***************************************************************************)
(* Model of ricecooker/classes/files.py: the File descriptor hierarchy,    *)
(* the filename cache (FILECACHE), the storage directory, the failure list *)
(* (config.FAILED_FILES) and the helpers download, write_and_get_hash,     *)
(* copy_file_to_storage, compress_video_file, download_from_web and        *)
(* generate_key.                                                           *)
(*                                                                         *)
(* Strings are Python strings, byte contents are sequences of small        *)
(* integers, a dict is the sequence of its items in insertion order.       *)
(* External collaborators (HTTP session, local files, ffmpeg, youtube_dl,  *)
(* thumbnail extractor, base64 decoder) answer nondeterministically.       *)
(*                                                                         *)
(* Spec follows whole get_filename calls made one after the other, on the  *)
(* stores the calls share (FILECACHE, storage, FAILED_FILES, the option    *)
(* dicts). SpecSteps follows the same calls statement by statement, one    *)
(* thread per descriptor, with the temp directory and the file under its   *)
(* final name in storage visible between the statements. SpecPure applies  *)
(* get_preset and validate.                                                *)
(***************************************************************************)
EXTENDS Integers, Sequences, FiniteSets, TLC

VARIABLES
    files,          \* descriptor id -> the File object's attributes
    dicts,          \* dict object id -> download_settings dict (items in insertion order)
    FILECACHE,      \* cache key -> filename
    storage,        \* filename -> bytes under config.get_storage_path(filename)
    FAILED_FILES,   \* config.FAILED_FILES, a list of descriptor ids
    UPDATE,         \* config.UPDATE
    COMPRESS,       \* config.COMPRESS
    last,           \* observation of the last call: operation, inputs, effects, result
    procs,          \* descriptor id -> the thread running get_filename on it, step by step
    tmpdir          \* path -> bytes of the files under tempfile.gettempdir()

vars == <<files, dicts, FILECACHE, storage, FAILED_FILES, UPDATE, COMPRESS, last,
          procs, tmpdir>>

-----------------------------------------------------------------------------
(* Bounds *)
NumFiles == 2       \* descriptors alive in one run
MaxFailed == 2      \* length of config.FAILED_FILES up to which calls are made
NumBytes == 2       \* distinct byte values a source or a tool may deliver

-----------------------------------------------------------------------------
(* Python values *)
None == "None"

Byte == 1..NumBytes
(* what a source or a tool delivers: nothing, or one chunk of one byte *)
Contents == {<<>>} \cup {<<b>> : b \in Byte}

(* hashlib.md5: a running digest, continued by update(); collision free on  *)
(* the bounded contents (digit string in base 8 over the byte values).     *)
NoHash == -1
Md5New == 0
RECURSIVE Md5Update(_, _)
Md5Update(h, chunk) ==
    IF chunk = <<>> THEN h
    ELSE Md5Update(h * 8 + Head(chunk), Tail(chunk))
HexDigest(h) == ToString(h)

(* le_utils constants *)
MP4 == "mp4"
VTT == "vtt"
MP3 == "mp3"
PDF == "pdf"
PNG == "png"
JPG == "jpg"
JPEG == "jpeg"
HTML5 == "zip"
GRAPHIE == "graphie"
FileFormats == {MP4, VTT, "srt", MP3, PDF, "epub", JPG, JPEG, PNG, "gif", "json", "svg",
                GRAPHIE, "perseus", HTML5}
GRAPHIE_DELIMITER == <<7>>

(* str.lower() on the extensions in use *)
Lower(s) == CASE s = "MP4" -> "mp4"
              [] s = "PNG" -> "png"
              [] OTHER -> s
(* str.upper() on the action names in use *)
Upper(s) == CASE s = "compressed" -> "COMPRESSED"
              [] s = "downloaded" -> "DOWNLOADED"
              [] OTHER -> s

-----------------------------------------------------------------------------
(* Paths: scheme, base name and suffix; PathStr is the path as a string.   *)
PathStr(p) == p.scheme \o p.base \o (IF p.ext = "" THEN "" ELSE "." \o p.ext)
(* os.path.splitext(path)[1] without the dot *)
SplitExt(p) == p.ext
(* self.path + suffix *)
PathPlus(p, suffix) ==
    [p EXCEPT !.base = PathStr([p EXCEPT !.scheme = ""]) \o suffix, !.ext = ""]

-----------------------------------------------------------------------------
(* dicts: item sequences <<key, value>>; keys are ordered as Python orders *)
(* the option names in use.                                                *)
OptRank(k) == CASE k = "bitrate" -> 1
                [] k = "crf" -> 2
                [] k = "format" -> 3
                [] k = "outtmpl" -> 4
                [] k = "quiet" -> 5
                [] OTHER -> 6

RECURSIVE InsertSorted(_, _)
InsertSorted(item, s) ==
    IF s = <<>> THEN <<item>>
    ELSE IF OptRank(item[1]) <= OptRank(Head(s)[1]) THEN <<item>> \o s
    ELSE <<Head(s)>> \o InsertSorted(item, Tail(s))

(* the mutant of SortedItems: the items stay in insertion order *)
SortedItems_unsorted(s) == s

(* sorted(settings.items()) *)
RECURSIVE SortedItems(_)
SortedItems(s) ==
    IF s = <<>> THEN <<>>
    ELSE InsertSorted(Head(s), SortedItems(Tail(s)))

(* d[k] = v *)
DictSet(d, k, v) ==
    IF \E i \in 1..Len(d) : d[i][1] = k
    THEN [i \in 1..Len(d) |-> IF d[i][1] = k THEN <<k, v>> ELSE d[i]]
    ELSE Append(d, <<k, v>>)

generate_key(action, path_or_id, settings, default) ==
    LET suffix == IF settings # <<>> THEN " " \o ToString(SortedItems(settings))
                  ELSE default
    IN Upper(action) \o ": " \o path_or_id \o suffix

-----------------------------------------------------------------------------
(* The world a call works on: the persistent stores plus the effects the   *)
(* call has had so far (counted per call, for observation).                *)
World ==
    [cache |-> FILECACHE, storage |-> storage, dicts |-> dicts, failed |-> FAILED_FILES,
     lookups |-> 0, transfers |-> 0, reads |-> 0, tools |-> 0, writes |-> 0, sets |-> 0,
     a |-> <<>>, b |-> <<>>]

(* results of the module-level helpers: value or exception *)
Ok(w, v) == [w |-> w, val |-> v, exc |-> "none"]
Raise(w, x) == [w |-> w, val |-> None, exc |-> x]

(* FILECACHE.get(key), truthy when the key is present *)
CacheHas(w, key) == key \in DOMAIN w.cache
CacheGet(w, key) == w.cache[key]
(* FILECACHE.set(key, bytes(filename)) *)
CacheSet(w, key, filename) ==
    [w EXCEPT !.cache = (key :> filename) @@ w.cache, !.sets = @ + 1]

(* the mutant of CacheHit: the cache is consulted in UPDATE mode too *)
CacheHit_ignoring_update(w, key) == CacheHas(w, key)

(* `if not config.UPDATE and FILECACHE.get(key)`: the get is evaluated only *)
(* when UPDATE is off                                                      *)
CacheHit(w, key) == ~UPDATE /\ CacheHas(w, key)
AfterHit(w) == [w EXCEPT !.lookups = @ + 2]
AfterMiss(w) == [w EXCEPT !.lookups = @ + (IF UPDATE THEN 0 ELSE 1)]

(* An answer of an external collaborator: an exception name or bytes *)
Answer(err, data) == [err |-> err, data |-> data]
Bytes(A) == {Answer("none", c) : c \in A}
Errors(E) == {Answer(x, <<>>) : x \in E}

(* the mutant of write_and_get_hash: the digest is restarted on every call *)
write_and_get_hash_restart(path, write_to_file, hash, out, w) ==
    LET remote == path.scheme # ""
        w1 == IF remote THEN [w EXCEPT !.transfers = @ + 1] ELSE [w EXCEPT !.reads = @ + 1]
    IN  IF out.err # "none"
        THEN [w |-> w1, file |-> write_to_file, hash |-> Md5New, exc |-> out.err]
        ELSE LET f2 == write_to_file \o out.data
             IN [w |-> w1, file |-> f2, hash |-> Md5Update(Md5New, out.data),
                 exc |-> IF Len(f2) > 0 THEN "none" ELSE "AssertionError"]

(* write_and_get_hash(path, write_to_file, hash=None): the source is the    *)
(* HTTP session for a URL and the local file otherwise (MissingSchema);    *)
(* out is what the source answers.                                         *)
write_and_get_hash(path, write_to_file, hash, out, w) ==
    LET h0 == IF hash = NoHash THEN Md5New ELSE hash
        remote == path.scheme # ""
        w1 == IF remote THEN [w EXCEPT !.transfers = @ + 1] ELSE [w EXCEPT !.reads = @ + 1]
    IN  IF out.err # "none"
        THEN [w |-> w1, file |-> write_to_file, hash |-> h0, exc |-> out.err]
        ELSE LET f2 == write_to_file \o out.data
             IN [w |-> w1, file |-> f2, hash |-> Md5Update(h0, out.data),
                 exc |-> IF Len(f2) > 0 THEN "none" ELSE "AssertionError"]

(* copy_file_to_storage(filename, srcfile): open(.., 'wb') and copyfileobj *)
copy_file_to_storage(filename, data, w) ==
    [w EXCEPT !.storage = (filename :> data) @@ w.storage, !.writes = @ + 1]

(* get_hash(filepath) *)
get_hash(data) == HexDigest(Md5Update(Md5New, data))

(* the mutant of download: the cache is never consulted *)
download_refetch(path, default_ext, out, w) ==
    LET key == "DOWNLOAD:" \o PathStr(path)
        r == write_and_get_hash(path, <<>>, NoHash, out, w)
        ext0 == Lower(SplitExt(path))
        extension == IF ext0 \in FileFormats THEN ext0 ELSE default_ext
        filename == HexDigest(r.hash) \o "." \o extension
    IN  IF r.exc # "none" THEN Raise(r.w, r.exc)
        ELSE IF ext0 \notin FileFormats /\ default_ext = None
             THEN Raise(r.w, "IOError")
        ELSE Ok(CacheSet(copy_file_to_storage(filename, r.file, r.w), key, filename), filename)

(* the mutant of download: the default extension is taken first *)
download_default_first(path, default_ext, out, w) ==
    LET key == "DOWNLOAD:" \o PathStr(path)
        r == write_and_get_hash(path, <<>>, NoHash, out, AfterMiss(w))
        ext0 == Lower(SplitExt(path))
        extension == IF default_ext # None THEN default_ext ELSE ext0
        filename == HexDigest(r.hash) \o "." \o extension
    IN  IF CacheHit(w, key) THEN Ok(AfterHit(w), CacheGet(w, key))
        ELSE IF r.exc # "none" THEN Raise(r.w, r.exc)
        ELSE IF ext0 \notin FileFormats /\ default_ext = None
             THEN Raise(r.w, "IOError")
        ELSE Ok(CacheSet(copy_file_to_storage(filename, r.file, r.w), key, filename), filename)

(* the mutant of download: the filename carries the name of the source *)
download_named_by_path(path, default_ext, out, w) ==
    LET key == "DOWNLOAD:" \o PathStr(path)
        r == write_and_get_hash(path, <<>>, NoHash, out, AfterMiss(w))
        ext0 == Lower(SplitExt(path))
        extension == IF ext0 \in FileFormats THEN ext0 ELSE default_ext
        filename == HexDigest(r.hash) \o "-" \o path.base \o "." \o extension
    IN  IF CacheHit(w, key) THEN Ok(AfterHit(w), CacheGet(w, key))
        ELSE IF r.exc # "none" THEN Raise(r.w, r.exc)
        ELSE IF ext0 \notin FileFormats /\ default_ext = None
             THEN Raise(r.w, "IOError")
        ELSE Ok(CacheSet(copy_file_to_storage(filename, r.file, r.w), key, filename), filename)

(* download(path, default_ext=None) *)
download(path, default_ext, out, w) ==
    LET key == "DOWNLOAD:" \o PathStr(path)
        r == write_and_get_hash(path, <<>>, NoHash, out, AfterMiss(w))
        ext0 == Lower(SplitExt(path))
        extension == IF ext0 \in FileFormats THEN ext0 ELSE default_ext
        filename == HexDigest(r.hash) \o "." \o extension
    IN  IF CacheHit(w, key) THEN Ok(AfterHit(w), CacheGet(w, key))
        ELSE IF r.exc # "none" THEN Raise(r.w, r.exc)
        ELSE IF ext0 \notin FileFormats /\ default_ext = None
             THEN Raise(r.w, "IOError")
        ELSE Ok(CacheSet(copy_file_to_storage(filename, r.file, r.w), key, filename), filename)

(* compress_video_file(filename, ffmpeg_settings); out is what ffmpeg      *)
(* (pressurecooker.compress_video) answers                                 *)
compress_video_file(filename, ffmpeg_settings, out, w) ==
    LET key == generate_key("COMPRESSED", filename, ffmpeg_settings, " (default compression)")
        w0 == [AfterMiss(w) EXCEPT !.tools = @ + 1]
        newname == get_hash(out.data) \o "." \o MP4
    IN  IF CacheHit(w, key) THEN Ok(AfterHit(w), CacheGet(w, key))
        ELSE IF out.err # "none" THEN Raise(w0, out.err)
        ELSE Ok(CacheSet(copy_file_to_storage(newname, out.data, w0), key, newname), newname)

(* str.encode('utf-8') of the URLs and ids in use *)
Utf8(s) == CASE s = "u1" -> <<1>>
             [] s = "u2" -> <<2>>
             [] s = "http://www.youtube.com/watch?v=y1" -> <<1, 1>>
             [] s = "y1" -> <<1, 2>>
             [] s = "y2" -> <<2, 1>>
             [] OTHER -> <<2, 2>>

(* the mutant of download_from_web: the cache entry is written before the *)
(* tool has run                                                            *)
download_from_web_eager(web_url, ds, out, w) ==
    LET key == generate_key("DOWNLOADED", web_url, w.dicts[ds], " (default)")
        destination_path == "/tmp/" \o get_hash(Utf8(web_url)) \o "." \o MP4
        w0 == [AfterMiss(w) EXCEPT
                  !.dicts[ds] = DictSet(@, "outtmpl", destination_path),
                  !.tools = @ + 1]
        filename == get_hash(out.data) \o "." \o MP4
    IN  IF CacheHit(w, key) THEN Ok(AfterHit(w), CacheGet(w, key))
        ELSE IF out.err # "none" THEN Raise(CacheSet(w0, key, filename), out.err)
        ELSE Ok(CacheSet(copy_file_to_storage(filename, out.data, w0), key, filename), filename)

(* download_from_web(web_url, download_settings); the dict is the caller's *)
(* object, out is what youtube_dl answers                                  *)
download_from_web(web_url, ds, out, w) ==
    LET key == generate_key("DOWNLOADED", web_url, w.dicts[ds], " (default)")
        destination_path == "/tmp/" \o get_hash(Utf8(web_url)) \o "." \o MP4
        w0 == [AfterMiss(w) EXCEPT
                  !.dicts[ds] = DictSet(@, "outtmpl", destination_path),
                  !.tools = @ + 1]
        filename == get_hash(out.data) \o "." \o MP4
    IN  IF CacheHit(w, key) THEN Ok(AfterHit(w), CacheGet(w, key))
        ELSE IF out.err # "none" THEN Raise(w0, out.err)
        ELSE Ok(CacheSet(copy_file_to_storage(filename, out.data, w0), key, filename), filename)

-----------------------------------------------------------------------------
(* The File classes *)
DownloadClasses ==
    {"DownloadFile", "ThumbnailFile", "AudioFile", "DocumentFile", "HTMLZipFile",
     "SubtitleFile", "_ExerciseImageFile"}
WebClasses == {"WebVideoFile", "YouTubeVideoFile"}
Base64Classes == {"Base64ImageFile", "_ExerciseBase64ImageFile"}
Classes ==
    DownloadClasses \cup WebClasses \cup Base64Classes \cup
    {"VideoFile", "ExtractedVideoThumbnailFile", "YouTubeSubtitleFile", "_ExerciseGraphieFile"}

(* class attribute default_ext *)
ClassDefaultExt(cls) ==
    CASE cls \in {"ThumbnailFile", "ExtractedVideoThumbnailFile",
                  "_ExerciseImageFile", "_ExerciseBase64ImageFile"} -> PNG
      [] cls = "AudioFile" -> MP3
      [] cls = "DocumentFile" -> PDF
      [] cls = "HTMLZipFile" -> HTML5
      [] cls = "VideoFile" -> MP4
      [] cls = "SubtitleFile" -> VTT
      [] cls = "_ExerciseGraphieFile" -> GRAPHIE
      [] OTHER -> None

(* class attribute allowed_formats *)
AllowedFormats(cls) ==
    CASE cls \in {"ThumbnailFile", "ExtractedVideoThumbnailFile"} -> {JPG, JPEG, PNG}
      [] cls = "AudioFile" -> {MP3}
      [] cls = "DocumentFile" -> {PDF}
      [] cls = "HTMLZipFile" -> {HTML5}
      [] cls = "VideoFile" -> {MP4}
      [] cls = "SubtitleFile" -> {VTT}
      [] OTHER -> {}

(* exceptions the process_file methods catch *)
DownloadCaught ==
    {"HTTPError", "ConnectionError", "InvalidURL", "UnicodeDecodeError", "UnicodeError",
     "InvalidSchema", "IOError", "AssertionError"}
VideoCaught == {"BrokenPipeError", "CalledProcessError", "IOError"}
WebCaught == {"DownloadError"}
GraphieCaught ==
    {"HTTPError", "ConnectionError", "InvalidURL", "UnicodeDecodeError", "UnicodeError",
     "InvalidSchema", "IOError"}

(* results of process_file: the world, the object, the value returned or   *)
(* the exception raised                                                    *)
Returned(w, self, ret) == [w |-> w, self |-> self, ret |-> ret, exc |-> "none"]
Raised(w, self, x) == [w |-> w, self |-> self, ret |-> None, exc |-> x]
(* the mutant of Failed: the descriptor is put at the head of the list *)
Failed_prepend(w, self, err) ==
    Returned([w EXCEPT !.failed = <<self.id>> \o @], [self EXCEPT !.error = err], None)

(* self.error = err; config.FAILED_FILES.append(self) *)
Failed(w, self, err) ==
    Returned([w EXCEPT !.failed = Append(@, self.id)], [self EXCEPT !.error = err], None)

(* `self.filename = f(...); return self.filename` around a helper result   *)
SetFilename(r, self, caught) ==
    IF r.exc = "none" THEN Returned(r.w, [self EXCEPT !.filename = r.val], r.val)
    ELSE IF r.exc \in caught THEN Failed(r.w, self, r.exc)
    ELSE Raised(r.w, self, r.exc)

(* DownloadFile.process_file *)
DownloadFile_process_file(self, e, w) ==
    SetFilename(download(self.path, self.default_ext, e.f1, w), self, DownloadCaught)

(* the mutant of VideoFile.process_file: every fetched video is transcoded *)
VideoFile_process_file_always(self, e, w) ==
    LET r1 == DownloadFile_process_file(self, e, w)
        s1 == [r1.self EXCEPT !.filename = r1.ret]
        r2 == compress_video_file(s1.filename, self.ffmpeg_settings, e.tool, r1.w)
    IN  IF r1.exc # "none"
        THEN IF r1.exc \in VideoCaught THEN Failed(r1.w, r1.self, r1.exc)
             ELSE r1
        ELSE IF s1.filename # None
        THEN SetFilename(r2, s1, VideoCaught)
        ELSE Returned(r1.w, s1, s1.filename)

(* VideoFile.process_file *)
VideoFile_process_file(self, e, w) ==
    LET r1 == DownloadFile_process_file(self, e, w)
        s1 == [r1.self EXCEPT !.filename = r1.ret]
        r2 == compress_video_file(s1.filename, self.ffmpeg_settings, e.tool, r1.w)
    IN  IF r1.exc # "none"
        THEN IF r1.exc \in VideoCaught THEN Failed(r1.w, r1.self, r1.exc)
             ELSE r1
        ELSE IF s1.filename # None /\ (self.ffmpeg_settings # <<>> \/ COMPRESS)
        THEN SetFilename(r2, s1, VideoCaught)
        ELSE Returned(r1.w, s1, s1.filename)

(* WebVideoFile.process_file *)
WebVideoFile_process_file(self, e, w) ==
    SetFilename(download_from_web(self.web_url, self.download_settings, e.tool, w),
                self, WebCaught)

(* ExtractedVideoThumbnailFile.derive_thumbnail *)
derive_thumbnail(self, out, w) ==
    LET key == "EXTRACTED: " \o PathStr(self.path)
        w0 == [AfterMiss(w) EXCEPT !.tools = @ + 1]
        filename == get_hash(out.data) \o "." \o PNG
    IN  IF CacheHit(w, key) THEN Ok(AfterHit(w), CacheGet(w, key))
        ELSE IF out.err # "none" THEN Raise(w0, out.err)
        ELSE Ok(CacheSet(copy_file_to_storage(filename, out.data, w0), key, filename), filename)

(* ExtractedVideoThumbnailFile.process_file *)
ExtractedVideoThumbnailFile_process_file(self, e, w) ==
    SetFilename(derive_thumbnail(self, e.tool, w), self, {})

(* YouTubeSubtitleFile.download_subtitle: youtube_dl writes the track of   *)
(* the language, or raises, or writes nothing for that language            *)
download_subtitle(self, out, w) ==
    LET key == "DOWNLOADED YOUTUBE " \o self.youtube_id \o "-" \o self.language
        w0 == [AfterMiss(w) EXCEPT !.tools = @ + 1]
        filename == get_hash(out.data) \o "." \o VTT
    IN  IF CacheHit(w, key) THEN Ok(AfterHit(w), CacheGet(w, key))
        ELSE IF out.err # "none" THEN Raise(w0, out.err)
        ELSE Ok(CacheSet(copy_file_to_storage(filename, out.data, w0), key, filename), filename)

(* YouTubeSubtitleFile.process_file *)
YouTubeSubtitleFile_process_file(self, e, w) ==
    SetFilename(download_subtitle(self, e.tool, w), self, {})

(* the text of a base64 data URL: media type and payload *)
EncodingText(enc) ==
    <<CASE enc.mime = PNG -> 1 [] enc.mime = JPG -> 2 [] OTHER -> 3>> \o enc.payload

(* Base64ImageFile.convert_base64_to_file; out is what the decoder writes  *)
convert_base64_to_file(self, out, w) ==
    LET key == "ENCODED: " \o get_hash(EncodingText(self.encoding)) \o " (base64 encoded)"
        w0 == AfterMiss(w)
        w1 == [w0 EXCEPT !.tools = @ + 1]
        extension == self.encoding.mime
        filename == get_hash(out.data) \o "." \o PNG
    IN  IF CacheHit(w, key) THEN Ok(AfterHit(w), CacheGet(w, key))
        ELSE IF extension = "" THEN Raise(w0, "AttributeError")
        ELSE IF extension \notin {PNG, JPG, JPEG} THEN Raise(w0, "AssertionError")
        ELSE IF out.err # "none" THEN Raise(w1, out.err)
        ELSE Ok(CacheSet(copy_file_to_storage(filename, out.data, w1), key, filename), filename)

(* Base64ImageFile.process_file *)
Base64ImageFile_process_file(self, e, w) ==
    SetFilename(convert_base64_to_file(self, e.tool, w), self, {})

(* _ExerciseGraphieFile.generate_graphie_file *)
generate_graphie_file(self, e, w) ==
    LET key == "GRAPHIE: " \o PathStr(self.path)
        w0 == AfterMiss(w)
        delimiter == GRAPHIE_DELIMITER
        r1 == write_and_get_hash(PathPlus(self.path, ".svg"), <<>>, NoHash, e.f1, w0)
        tempf1 == r1.file \o delimiter
        hash1 == Md5Update(r1.hash, delimiter)
        r2 == write_and_get_hash(PathPlus(self.path, "-data.json"), tempf1, hash1, e.f2, r1.w)
        filename == HexDigest(r2.hash) \o "." \o GRAPHIE
        w2 == [r2.w EXCEPT !.a = e.f1.data, !.b = e.f2.data]
    IN  IF CacheHit(w, key) THEN Ok(AfterHit(w), CacheGet(w, key))
        ELSE IF r1.exc # "none" THEN Raise(r1.w, r1.exc)
        ELSE IF r2.exc # "none" THEN Raise(r2.w, r2.exc)
        ELSE Ok(CacheSet(copy_file_to_storage(filename, r2.file, w2), key, filename), filename)

(* _ExerciseGraphieFile.process_file *)
ExerciseGraphieFile_process_file(self, e, w) ==
    SetFilename(generate_graphie_file(self, e, w), self, GraphieCaught)

(* process_file, dispatched on the class of self *)
process_file(self, e, w) ==
    CASE self.cls \in DownloadClasses -> DownloadFile_process_file(self, e, w)
      [] self.cls = "VideoFile" -> VideoFile_process_file(self, e, w)
      [] self.cls \in WebClasses -> WebVideoFile_process_file(self, e, w)
      [] self.cls = "ExtractedVideoThumbnailFile" ->
            ExtractedVideoThumbnailFile_process_file(self, e, w)
      [] self.cls = "YouTubeSubtitleFile" -> YouTubeSubtitleFile_process_file(self, e, w)
      [] self.cls \in Base64Classes -> Base64ImageFile_process_file(self, e, w)
      [] self.cls = "_ExerciseGraphieFile" -> ExerciseGraphieFile_process_file(self, e, w)

(* the mutant of get_filename: a resolved descriptor is processed again *)
get_filename_always(self, e, w) == process_file(self, e, w)

(* File.get_filename *)
get_filename(self, e, w) ==
    IF self.filename # None THEN Returned(w, self, self.filename)
    ELSE process_file(self, e, w)

-----------------------------------------------------------------------------
(* What the collaborators may answer to one call on self *)
NoAnswer == Answer("none", <<>>)
(* a tool that succeeds writes a file that is not empty *)
Outputs == Bytes(Contents \ {<<>>})
FetchAnswers(path) ==
    IF PathStr(path) = "" THEN Errors({"IOError"})
    ELSE Bytes(Contents) \cup
         (IF path.scheme # "" THEN Errors({"HTTPError"}) ELSE Errors({"IOError"}))
Env(self) ==
    CASE self.filename # None -> {[f1 |-> NoAnswer, f2 |-> NoAnswer, tool |-> NoAnswer]}
      [] self.cls \in DownloadClasses ->
            {[f1 |-> x, f2 |-> NoAnswer, tool |-> NoAnswer] : x \in FetchAnswers(self.path)}
      [] self.cls = "VideoFile" ->
            {[f1 |-> x, f2 |-> NoAnswer, tool |-> t] :
                x \in FetchAnswers(self.path),
                t \in Outputs \cup Errors({"CalledProcessError"})}
      [] self.cls = "_ExerciseGraphieFile" ->
            {[f1 |-> x, f2 |-> y, tool |-> NoAnswer] :
                x \in FetchAnswers(self.path), y \in FetchAnswers(self.path)}
      [] self.cls \in WebClasses ->
            {[f1 |-> NoAnswer, f2 |-> NoAnswer, tool |-> t] :
                t \in Outputs \cup Errors({"DownloadError"})}
      [] self.cls = "YouTubeSubtitleFile" ->
            {[f1 |-> NoAnswer, f2 |-> NoAnswer, tool |-> t] :
                t \in Outputs \cup Errors({"DownloadError", "IOError"})}
      [] self.cls = "ExtractedVideoThumbnailFile" ->
            {[f1 |-> NoAnswer, f2 |-> NoAnswer, tool |-> t] :
                t \in Outputs \cup Errors({"CalledProcessError"})}
      [] self.cls \in Base64Classes ->
            {[f1 |-> NoAnswer, f2 |-> NoAnswer, tool |-> t] : t \in Outputs}

-----------------------------------------------------------------------------
(* Node kinds of the owning node (nodes.py); None when no node is set *)
NodeKinds ==
    {"ChannelNode", "TopicNode", "VideoNode", "AudioNode", "DocumentNode", "ExerciseNode",
     "HTML5AppNode", None}

(* ThumbnailPresetMixin.get_preset *)
ThumbnailPresetMixin_get_preset(self) ==
    CASE self.node = "ChannelNode" -> Ok(self, "channel_thumbnail")
      [] self.node = "VideoNode" -> Ok(self, "video_thumbnail")
      [] self.node = "AudioNode" -> Ok(self, "audio_thumbnail")
      [] self.node = "DocumentNode" -> Ok(self, "document_thumbnail")
      [] self.node = "ExerciseNode" -> Ok(self, "exercise_thumbnail")
      [] self.node = "HTML5AppNode" -> Ok(self, "html5_thumbnail")
      [] OTHER -> Raise(self, "UnknownFileTypeError")

(* File.get_preset *)
File_get_preset(self) ==
    IF self.preset # None THEN Ok(self, self.preset)
    ELSE Raise(self, "NotImplementedError")

(* `return self.preset or <default>` *)
PresetOr(self, default) ==
    IF self.preset # None THEN Ok(self, self.preset) ELSE Ok(self, default)

(* get_preset, by the method resolution order of the class of self; guess  *)
(* is what guess_video_preset_by_resolution answers for the stored file    *)
get_preset(self, guess) ==
    CASE self.cls \in {"ThumbnailFile", "ExtractedVideoThumbnailFile", "Base64ImageFile"} ->
            ThumbnailPresetMixin_get_preset(self)
      [] self.cls \in {"DownloadFile"} -> File_get_preset(self)
      [] self.cls = "AudioFile" -> PresetOr(self, "audio")
      [] self.cls = "DocumentFile" -> PresetOr(self, "document")
      [] self.cls = "HTMLZipFile" -> PresetOr(self, "html5_zip")
      [] self.cls \in {"VideoFile", "WebVideoFile", "YouTubeVideoFile"} ->
            IF self.preset # None THEN Ok(self, self.preset)
            ELSE IF self.filename = None THEN Raise(self, "TypeError")
            ELSE Ok(self, guess)
      [] self.cls \in {"YouTubeSubtitleFile", "SubtitleFile"} -> PresetOr(self, "video_subtitle")
      [] self.cls \in {"_ExerciseBase64ImageFile", "_ExerciseImageFile"} ->
            PresetOr(self, "exercise_image")
      [] self.cls = "_ExerciseGraphieFile" -> PresetOr(self, "exercise_graphie")

(* answers of guess_video_preset_by_resolution *)
VideoGuesses == {"high_res_video", "low_res_video"}

(* DownloadFile.validate *)
DownloadFile_validate(self) ==
    LET plain_ext == SplitExt(self.path)
    IN  IF PathStr(self.path) = "" THEN "AssertionError"
        ELSE IF Len(plain_ext) > 1 /\ plain_ext \notin AllowedFormats(self.cls)
             THEN "AssertionError"
        ELSE "none"

(* HTMLZipFile.validate *)
HTMLZipFile_validate(self) ==
    IF DownloadFile_validate(self) # "none" THEN DownloadFile_validate(self)
    ELSE IF ~self.zipindex THEN "AssertionError"
    ELSE "none"

(* validate, by the class of self: the exception raised, "none" if valid *)
validate(self) ==
    CASE self.cls = "HTMLZipFile" -> HTMLZipFile_validate(self)
      [] self.cls \in DownloadClasses \cup
            {"VideoFile", "ExtractedVideoThumbnailFile", "_ExerciseGraphieFile"} ->
            DownloadFile_validate(self)
      [] OTHER -> "none"

-----------------------------------------------------------------------------
(* Descriptors after construction *)
Path(scheme, base, ext) == [scheme |-> scheme, base |-> base, ext |-> ext]
Encoding(mime, payload) == [mime |-> mime, payload |-> payload]

(* File.__init__ *)
File(cls) ==
    [id |-> 0, cls |-> cls, preset |-> None, node |-> None, language |-> None,
     default_ext |-> ClassDefaultExt(cls), path |-> Path("", "", ""),
     ffmpeg_settings |-> <<>>, download_settings |-> 0, web_url |-> "", youtube_id |-> "",
     encoding |-> Encoding("", <<>>), zipindex |-> FALSE,
     filename |-> None, error |-> None]

(* DownloadFile.__init__ and its subclasses *)
DownloadFile(cls, path) == [File(cls) EXCEPT !.path = path]
HTMLZipFile(path, hasindex) == [DownloadFile("HTMLZipFile", path) EXCEPT !.zipindex = hasindex]
SubtitleFile(path, language) == [DownloadFile("SubtitleFile", path) EXCEPT !.language = language]
VideoFile(path, ffmpeg_settings) ==
    [DownloadFile("VideoFile", path) EXCEPT !.ffmpeg_settings = ffmpeg_settings]
(* WebVideoFile.__init__: the descriptor keeps the caller's dict *)
WebVideoFile(web_url, ds) ==
    [File("WebVideoFile") EXCEPT !.web_url = web_url, !.download_settings = ds]
YouTubeVideoFile(youtube_id, ds) ==
    [File("YouTubeVideoFile") EXCEPT
        !.web_url = "http://www.youtube.com/watch?v=" \o youtube_id, !.download_settings = ds]
YouTubeSubtitleFile(youtube_id, language) ==
    [File("YouTubeSubtitleFile") EXCEPT !.youtube_id = youtube_id, !.language = language]
Base64ImageFile(cls, encoding) == [File(cls) EXCEPT !.encoding = encoding]

(* the download_settings dicts after WebVideoFile.__init__ (a format is set) *)
InitDicts ==
    (1 :> <<<<"format", "best">>, <<"quiet", "yes">>>>) @@
    (2 :> <<<<"quiet", "yes">>, <<"format", "best">>>>)

Remote == "http://h/"
SettingsA == <<<<"bitrate", "500">>, <<"crf", "32">>>>
SettingsB == <<<<"crf", "32">>, <<"bitrate", "500">>>>

(* Families of descriptors a run is made of *)
Families ==
    { {DownloadFile("DownloadFile", Path(Remote, "a", MP4)),
       DownloadFile("AudioFile", Path(Remote, "a", MP4))},
      {DownloadFile("DownloadFile", Path(Remote, "a", "xyz"))},
      {SubtitleFile(Path("", "s", ""), "en"),
       DownloadFile("DocumentFile", Path("", "", ""))},
      {HTMLZipFile(Path("", "z", HTML5), TRUE),
       HTMLZipFile(Path("", "w", HTML5), FALSE)},
      {DownloadFile("ThumbnailFile", Path("", "t", "PNG")),
       DownloadFile("_ExerciseImageFile", Path("", "t", "PNG"))},
      {VideoFile(Path(Remote, "a", MP4), SettingsA),
       VideoFile(Path(Remote, "a", MP4), SettingsB)},
      {VideoFile(Path(Remote, "a", MP4), <<>>)},
      {WebVideoFile("u1", 1), WebVideoFile("u1", 2)},
      {YouTubeVideoFile("y1", 2)},
      {YouTubeSubtitleFile("y1", "en"), YouTubeSubtitleFile("y1", "fr")},
      {Base64ImageFile("Base64ImageFile", Encoding(PNG, <<1>>)),
       Base64ImageFile("_ExerciseBase64ImageFile", Encoding(PNG, <<1>>))},
      {Base64ImageFile("Base64ImageFile", Encoding("gif", <<1>>)),
       Base64ImageFile("Base64ImageFile", Encoding("", <<1>>))},
      {DownloadFile("_ExerciseGraphieFile", Path(Remote, "g", ""))},
      {DownloadFile("ExtractedVideoThumbnailFile", Path("", "v", MP4))} }

Ids == 1..NumFiles

NoCall ==
    [op |-> "none", d |-> 0, ret |-> None, exc |-> "none", before |-> None,
     lookups |-> 0, transfers |-> 0, reads |-> 0, tools |-> 0, writes |-> 0, sets |-> 0,
     a |-> <<>>, b |-> <<>>, overwrote |-> FALSE]

(* a thread that has not called get_filename yet *)
NoProc ==
    [pc |-> "idle", op |-> "none", key |-> None, path |-> None, src |-> <<>>,
     filename |-> None, exc |-> "none"]

InitStores ==
    /\ dicts = InitDicts
    /\ FILECACHE = << >>
    /\ storage = << >>
    /\ FAILED_FILES = << >>
    /\ UPDATE = FALSE
    /\ COMPRESS = FALSE
    /\ last = NoCall
    /\ procs = [d \in Ids |-> NoProc]
    /\ tmpdir = << >>

Init ==
    /\ \E F \in Families : \E t \in [Ids -> F] :
          files = [i \in Ids |-> [t[i] EXCEPT !.id = i]]
    /\ InitStores

-----------------------------------------------------------------------------
(* Calls *)
GetFilename(d) ==
    /\ Len(FAILED_FILES) < MaxFailed
    /\ \E e \in Env(files[d]) :
          LET r == get_filename(files[d], e, World)
          IN  /\ files' = [files EXCEPT ![d] = r.self]
              /\ dicts' = r.w.dicts
              /\ FILECACHE' = r.w.cache
              /\ storage' = r.w.storage
              /\ FAILED_FILES' = r.w.failed
              /\ last' = [op |-> "get_filename", d |-> d, ret |-> r.ret, exc |-> r.exc,
                          before |-> files[d].filename,
                          lookups |-> r.w.lookups, transfers |-> r.w.transfers,
                          reads |-> r.w.reads, tools |-> r.w.tools,
                          writes |-> r.w.writes, sets |-> r.w.sets,
                          a |-> r.w.a, b |-> r.w.b,
                          overwrote |-> \E k \in DOMAIN FILECACHE : r.w.cache[k] # FILECACHE[k]]
    /\ UNCHANGED <<UPDATE, COMPRESS, procs, tmpdir>>

(* the caller sets config.UPDATE and config.COMPRESS *)
SetConfig ==
    /\ \E u \in BOOLEAN, c \in BOOLEAN :
          /\ <<u, c>> # <<UPDATE, COMPRESS>>
          /\ UPDATE' = u
          /\ COMPRESS' = c
    /\ last' = [NoCall EXCEPT !.op = "config"]
    /\ UNCHANGED <<files, dicts, FILECACHE, storage, FAILED_FILES, procs, tmpdir>>

Next ==
    \/ \E d \in Ids : GetFilename(d)
    \/ SetConfig

Spec == Init /\ [][Next]_vars

-----------------------------------------------------------------------------
(* The pure operations get_preset and validate, applied to descriptors of  *)
(* every class, with and without an explicit preset, owned by every kind   *)
(* of node, before and after resolution.                                   *)
PureFiles ==
    UNION Families \cup
    {DownloadFile("VideoFile", Path("", "a", "MP4")),
     DownloadFile("ThumbnailFile", Path(Remote, "t", "c")),
     DownloadFile("ThumbnailFile", Path(Remote, "t", MP4))}

InitPure ==
    /\ \E t \in PureFiles, p \in {None, "custom"}, n \in NodeKinds,
          f \in {None, "1." \o MP4} :
          files = [i \in Ids |-> [t EXCEPT !.id = i, !.preset = p, !.node = n,
                                           !.filename = f]]
    /\ InitStores

GetPreset(d) ==
    /\ \E guess \in VideoGuesses :
          LET r == get_preset(files[d], guess)
          IN  last' = [NoCall EXCEPT !.op = "get_preset", !.d = d, !.ret = r.val,
                                     !.exc = r.exc, !.before = files[d].filename]
    /\ UNCHANGED <<files, dicts, FILECACHE, storage, FAILED_FILES, UPDATE, COMPRESS,
                   procs, tmpdir>>

Validate(d) ==
    /\ last' = [NoCall EXCEPT !.op = "validate", !.d = d, !.exc = validate(files[d]),
                              !.before = files[d].filename]
    /\ UNCHANGED <<files, dicts, FILECACHE, storage, FAILED_FILES, UPDATE, COMPRESS,
                   procs, tmpdir>>

NextPure ==
    \/ \E d \in Ids : GetPreset(d)
    \/ \E d \in Ids : Validate(d)

SpecPure == InitPure /\ [][NextPure]_vars

-----------------------------------------------------------------------------
(* Properties *)

(* the last call was get_filename on d *)
Resolved(d) == last.op = "get_filename" /\ last.d = d
(* the step is a get_filename call on d *)
Resolving(d) == last'.op = "get_filename" /\ last'.d = d
(* the call did no cache lookup, no transfer, no local read, no tool run,  *)
(* no storage write and no cache write                                     *)
Idle(obs) ==
    /\ obs.lookups = 0 /\ obs.transfers = 0 /\ obs.reads = 0
    /\ obs.tools = 0 /\ obs.writes = 0 /\ obs.sets = 0
(* the source accesses and tool runs of the call *)
Effort(obs) == obs.transfers + obs.reads + obs.tools
Range(seq) == {seq[i] : i \in 1..Len(seq)}

(* C1: after get_filename has returned on a descriptor, exactly one of     *)
(* filename set and error set holds for it, never both and never neither.  *)
C1_ExactlyOneOfFilenameError ==
    \A d \in Ids :
        (Resolved(d) /\ last.exc = "none") =>
            ((files[d].filename # None) # (files[d].error # None))

(* C2: get_filename never raises: when acquisition fails it returns no     *)
(* filename, the failure is in the descriptor's error and the descriptor   *)
(* is in FAILED_FILES.                                                     *)
C2_NeverRaises ==
    \A d \in Ids :
        Resolved(d) =>
            /\ last.exc = "none"
            /\ last.ret = None => (files[d].error # None /\ d \in Range(FAILED_FILES))

(* C3: get_filename on a descriptor whose filename is set returns that     *)
(* filename and does no cache lookup, no transfer, no tool run and no      *)
(* write, with UPDATE on or off; nothing but the observation changes.      *)
C3_ResolvedIsNoOp ==
    [][\A d \in Ids :
          (files[d].filename # None /\ Resolving(d)) =>
              /\ last'.exc = "none"
              /\ last'.ret = files[d].filename
              /\ Idle(last')
              /\ UNCHANGED <<files, dicts, FILECACHE, storage, FAILED_FILES>>]_vars

(* a resolved descriptor was resolved again in UPDATE mode, with a cache   *)
(* entry that names its filename                                           *)
C3_Witness ==
    /\ last.op = "get_filename"
    /\ last.before # None
    /\ last.ret = last.before
    /\ UPDATE
    /\ \E k \in DOMAIN FILECACHE : FILECACHE[k] = last.ret

(* the cache keys of the operations *)
UsesDownload(f) == f.cls \in DownloadClasses \cup {"VideoFile"}
DownloadKey(f) == "DOWNLOAD:" \o PathStr(f.path)
Compresses(f) == f.cls = "VideoFile" /\ (f.ffmpeg_settings # <<>> \/ COMPRESS)
(* the key of the first cached operation of get_filename on f *)
AcquireKey(f) ==
    CASE UsesDownload(f) -> DownloadKey(f)
      [] f.cls \in WebClasses ->
            generate_key("DOWNLOADED", f.web_url, dicts[f.download_settings], " (default)")
      [] f.cls = "YouTubeSubtitleFile" ->
            "DOWNLOADED YOUTUBE " \o f.youtube_id \o "-" \o f.language
      [] f.cls = "ExtractedVideoThumbnailFile" -> "EXTRACTED: " \o PathStr(f.path)
      [] f.cls \in Base64Classes ->
            "ENCODED: " \o get_hash(EncodingText(f.encoding)) \o " (base64 encoded)"
      [] f.cls = "_ExerciseGraphieFile" -> "GRAPHIE: " \o PathStr(f.path)
CompressKey(f, downloaded) ==
    generate_key("COMPRESSED", downloaded, f.ffmpeg_settings, " (default compression)")
SameItems(s1, s2) == Range(s1) = Range(s2)

(* C4: with UPDATE off, when a descriptor has fetched a remote URL (one    *)
(* transfer) and the next call resolves another descriptor of the same URL,*)
(* the second call makes no transfer: the first has stored the artifact    *)
(* and recorded the cache entry, the second returns the entry's filename.  *)
C4_SecondFetchIsCached ==
    [][\A d1, d2 \in Ids :
          (/\ d1 # d2
           /\ UsesDownload(files[d1]) /\ UsesDownload(files[d2])
           /\ files[d1].path = files[d2].path
           /\ files[d1].path.scheme # ""
           /\ ~UPDATE
           /\ Resolved(d1) /\ last.before = None /\ last.transfers = 1
           /\ files[d1].filename # None
           /\ files[d2].filename = None
           /\ Resolving(d2))
          => /\ DownloadKey(files[d1]) \in DOMAIN FILECACHE
             /\ FILECACHE[DownloadKey(files[d1])] \in DOMAIN storage
             /\ last'.transfers = 0
             /\ last.transfers + last'.transfers = 1
             /\ files[d2].cls \in DownloadClasses =>
                   /\ last'.exc = "none"
                   /\ last'.ret = FILECACHE[DownloadKey(files[d1])]
                   /\ files[d1].cls \in DownloadClasses => last'.ret = last.ret]_vars

(* two descriptors of one remote URL were resolved one after the other,    *)
(* the second from the cache                                               *)
C4_Witness ==
    /\ last.op = "get_filename"
    /\ ~UPDATE
    /\ last.before = None
    /\ last.ret # None
    /\ last.lookups = 2
    /\ last.transfers = 0
    /\ \E d1 \in Ids :
          /\ d1 # last.d
          /\ files[d1].cls \in DownloadClasses
          /\ files[d1].path = files[last.d].path
          /\ files[d1].path.scheme # ""
          /\ files[d1].filename = last.ret

(* C5: in UPDATE mode get_filename on an unresolved descriptor skips the   *)
(* cache lookup and runs the acquisition even if the cache holds an entry  *)
(* for its key, and on success writes the new filename under that key;     *)
(* with UPDATE off an entry for the key is returned without acquisition.   *)
C5_UpdateRefreshes ==
    [][\A d \in Ids :
          (files[d].filename = None /\ Resolving(d)) =>
              LET f == files[d]
                  key == AcquireKey(f)
              IN  /\ UPDATE =>
                        /\ last'.lookups = 0
                        /\ (f.cls \in Base64Classes => f.encoding.mime \in {PNG, JPG, JPEG})
                              => Effort(last') >= 1
                        /\ (last'.exc = "none" /\ last'.ret # None) =>
                              /\ last'.sets >= 1
                              /\ key \in DOMAIN FILECACHE'
                              /\ FILECACHE'[key] \in DOMAIN storage'
                              /\ IF Compresses(f)
                                 THEN FILECACHE'[CompressKey(f, FILECACHE'[key])] = last'.ret
                                 ELSE FILECACHE'[key] = last'.ret
                  /\ (~UPDATE /\ key \in DOMAIN FILECACHE) =>
                        /\ last'.transfers = 0 /\ last'.reads = 0
                        /\ f.cls # "VideoFile" =>
                              /\ Effort(last') = 0
                              /\ last'.exc = "none"
                              /\ last'.ret = FILECACHE[key]]_vars

(* in UPDATE mode an acquisition replaced the filename of an existing      *)
(* cache entry                                                             *)
C5_Witness ==
    /\ last.op = "get_filename"
    /\ UPDATE
    /\ last.before = None
    /\ last.ret # None
    /\ last.lookups = 0
    /\ last.overwrote
    /\ \E k \in DOMAIN FILECACHE : FILECACHE[k] = last.ret

(* C6: option sets with the same entries give the same cache key whatever  *)
(* the insertion order; with UPDATE off, a VideoFile of the same source    *)
(* whose options were built in another order, resolved right after the     *)
(* first was transcoded, does not run the transcoder and gets the same     *)
(* filename.                                                               *)
C6_KeyIgnoresInsertionOrder ==
    [][/\ \A d1, d2 \in Ids :
             SameItems(files[d1].ffmpeg_settings, files[d2].ffmpeg_settings) =>
                 \A name \in DOMAIN storage :
                     CompressKey(files[d1], name) = CompressKey(files[d2], name)
       /\ \A o1, o2 \in DOMAIN dicts :
             SameItems(dicts[o1], dicts[o2]) =>
                 generate_key("DOWNLOADED", "u1", dicts[o1], " (default)")
                     = generate_key("DOWNLOADED", "u1", dicts[o2], " (default)")
       /\ \A d1, d2 \in Ids :
             (/\ d1 # d2
              /\ files[d1].cls = "VideoFile" /\ files[d2].cls = "VideoFile"
              /\ files[d1].path = files[d2].path
              /\ files[d1].ffmpeg_settings # <<>>
              /\ SameItems(files[d1].ffmpeg_settings, files[d2].ffmpeg_settings)
              /\ ~UPDATE
              /\ Resolved(d1) /\ last.before = None /\ last.exc = "none" /\ last.ret # None
              /\ files[d2].filename = None
              /\ Resolving(d2))
             => /\ last'.tools = 0
                /\ last'.exc = "none"
                /\ last'.ret = last.ret]_vars

(* a VideoFile was served from the cache entry written for a VideoFile     *)
(* whose options have the other insertion order                            *)
C6_Witness ==
    /\ last.op = "get_filename"
    /\ ~UPDATE
    /\ last.before = None
    /\ last.ret # None
    /\ last.lookups = 4
    /\ last.tools = 0
    /\ \E d1 \in Ids :
          /\ d1 # last.d
          /\ files[d1].ffmpeg_settings # files[last.d].ffmpeg_settings
          /\ SameItems(files[d1].ffmpeg_settings, files[last.d].ffmpeg_settings)
          /\ files[d1].filename = last.ret

(* C7: get_filename validates before it acquires: on a descriptor whose   *)
(* validate() fails it records a failure and does no cache lookup, no      *)
(* transfer, no read and no storage write.                                 *)
C7_ValidatesBeforeAcquiring ==
    \A d \in Ids :
        (Resolved(d) /\ last.before = None /\ validate(files[d]) # "none") =>
            /\ last.lookups = 0 /\ last.transfers = 0 /\ last.reads = 0 /\ last.writes = 0
            /\ last.exc = "none"
            /\ last.ret = None
            /\ files[d].error # None
            /\ d \in Range(FAILED_FILES)

(* C8: acquisition runs at most once per descriptor: get_filename on a     *)
(* descriptor that has resolved or failed before reads no source, runs no  *)
(* tool and appends nothing to FAILED_FILES.                               *)
C8_AcquiredAtMostOnce ==
    [][\A d \in Ids :
          (Resolving(d) /\ (files[d].filename # None \/ files[d].error # None)) =>
              /\ Effort(last') = 0
              /\ FAILED_FILES' = FAILED_FILES]_vars

(* the preset a class falls back to, None where the class has none *)
ClassPreset(cls) ==
    CASE cls = "AudioFile" -> "audio"
      [] cls = "DocumentFile" -> "document"
      [] cls = "HTMLZipFile" -> "html5_zip"
      [] cls \in {"YouTubeSubtitleFile", "SubtitleFile"} -> "video_subtitle"
      [] cls \in {"_ExerciseBase64ImageFile", "_ExerciseImageFile"} -> "exercise_image"
      [] cls = "_ExerciseGraphieFile" -> "exercise_graphie"
      [] OTHER -> None
ThumbnailClasses == {"ThumbnailFile", "ExtractedVideoThumbnailFile", "Base64ImageFile"}
ThumbnailNodes ==
    {"ChannelNode", "VideoNode", "AudioNode", "DocumentNode", "ExerciseNode", "HTML5AppNode"}

(* C9: get_preset returns the explicit preset when one was given; without  *)
(* one it returns the class default, and for the thumbnail classes the     *)
(* preset of the owning node's kind, UnknownFileTypeError for other kinds. *)
C9_ExplicitPresetWins ==
    \A d \in Ids :
        (last.op = "get_preset" /\ last.d = d) =>
            LET f == files[d]
            IN  IF f.preset # None
                THEN last.exc = "none" /\ last.ret = f.preset
                ELSE IF ClassPreset(f.cls) # None
                THEN last.exc = "none" /\ last.ret = ClassPreset(f.cls)
                ELSE IF f.cls \in ThumbnailClasses
                THEN IF f.node \in ThumbnailNodes
                     THEN last.exc = "none" /\ last.ret = ThumbnailPresetMixin_get_preset(f).val
                     ELSE last.exc = "UnknownFileTypeError"
                ELSE TRUE

(* C10: a graphie file acquired from parts A and B is stored as A, the     *)
(* delimiter, B, and its filename carries the digest of that whole byte    *)
(* sequence.                                                               *)
C10_GraphieIsConcatenation ==
    \A d \in Ids :
        (/\ Resolved(d)
         /\ files[d].cls = "_ExerciseGraphieFile"
         /\ last.before = None /\ last.exc = "none" /\ last.ret # None
         /\ last.sets = 1)
        => LET whole == last.a \o GRAPHIE_DELIMITER \o last.b
           IN  /\ last.ret \in DOMAIN storage
               /\ storage[last.ret] = whole
               /\ last.ret = HexDigest(Md5Update(Md5New, whole)) \o "." \o GRAPHIE
               /\ files[d].filename = last.ret

(* a graphie file was acquired from two parts that are not empty *)
C10_Witness ==
    /\ last.op = "get_filename"
    /\ files[last.d].cls = "_ExerciseGraphieFile"
    /\ last.sets = 1
    /\ last.ret # None
    /\ last.a # <<>>
    /\ last.b # <<>>
    /\ last.a # last.b

(* C11: every write_and_get_hash call that copies zero bytes fails: an      *)
(* acquisition that went to its sources and returned a filename has copied *)
(* at least one byte from each source, a plain download from its one       *)
(* source and a graphie file from the first part and from the second part, *)
(* which resumes the digest and writes behind the first part.              *)
C11_ZeroBytesAlwaysFails ==
    \A d \in Ids :
        (/\ Resolved(d)
         /\ last.before = None /\ last.exc = "none" /\ last.ret # None
         /\ last.sets = 1)
        => /\ files[d].cls \in DownloadClasses => storage[last.ret] # <<>>
           /\ files[d].cls = "_ExerciseGraphieFile" => (last.a # <<>> /\ last.b # <<>>)

-----------------------------------------------------------------------------
(* get_filename statement by statement: one thread per descriptor, each    *)
(* calling get_filename once. A thread is at a label (pc) inside the       *)
(* helper it runs (op); its local variables are key, path (the temp file   *)
(* it works on), src (the bytes of the source it holds open), filename and *)
(* the exception in flight.                                                *)

(* the helper get_filename runs first for a class *)
FirstOp(cls) ==
    CASE cls \in DownloadClasses \cup {"VideoFile"} -> "download"
      [] cls \in WebClasses -> "web"
      [] cls = "ExtractedVideoThumbnailFile" -> "thumbnail"
      [] cls = "YouTubeSubtitleFile" -> "subtitle"
      [] cls \in Base64Classes -> "base64"
      [] cls = "_ExerciseGraphieFile" -> "graphie"
(* helpers whose output is written by an external tool to a named temp file *)
ToolOps == {"compress", "web", "thumbnail", "subtitle", "base64"}
(* helpers that make the temp file with NamedTemporaryFile(delete=False)   *)
NamedOps == {"compress", "thumbnail", "base64"}
(* the extension a helper gives to the filename *)
OpExt(op) ==
    CASE op \in {"compress", "web"} -> MP4
      [] op \in {"thumbnail", "base64"} -> PNG
      [] op = "subtitle" -> VTT

(* os.path.join(tempfile.gettempdir(), ...) in download_from_web *)
WebTempPath(web_url) == "/tmp/" \o get_hash(Utf8(web_url)) \o "." \o MP4
(* destination_path and youtube_download_path in download_subtitle *)
SubtitleTempPath(youtube_id) == "/tmp/" \o get_hash(Utf8(youtube_id))
SubtitleDownloadPath(destpath, lang) == destpath \o "." \o lang \o "." \o VTT
(* tempfile.NamedTemporaryFile(suffix=..).name: a name no file has *)
TempName(i, suffix) == "/tmp/tmp" \o ToString(i) \o "." \o suffix
NamedTemporaryFile(suffix) ==
    LET n == Cardinality(DOMAIN tmpdir) + 1
    IN  TempName(CHOOSE i \in 1..n :
                    /\ TempName(i, suffix) \notin DOMAIN tmpdir
                    /\ \A j \in 1..(i - 1) : TempName(j, suffix) \in DOMAIN tmpdir,
                 suffix)
(* os.remove(path), os.unlink(path) *)
Remove(dir, path) == [q \in DOMAIN dir \ {path} |-> dir[q]]

(* the mutant of Sequel: the cache entry is written before the file is    *)
(* opened in storage                                                       *)
Sequel_cache_first(op, pc) ==
    CASE pc = "tool" -> IF op \in ToolOps THEN "hash" ELSE "set"
      [] pc = "hash" -> "set"
      [] pc = "set" -> "open"
      [] pc = "open" -> "copy"
      [] pc = "copy" -> IF op \in NamedOps THEN "unlink" ELSE "return"
      [] pc = "unlink" -> "return"

(* the statements from the tool's return to the helper's return, in order  *)
Sequel(op, pc) ==
    CASE pc = "tool" -> IF op \in ToolOps THEN "hash" ELSE "open"
      [] pc = "hash" -> "open"
      [] pc = "open" -> "copy"
      [] pc = "copy" -> IF op \in NamedOps THEN "unlink" ELSE "set"
      [] pc = "unlink" -> "set"
      [] pc = "set" -> "return"

(* the exceptions caught around a helper by the process_file of a class *)
StepCaught(cls, op) ==
    CASE cls \in DownloadClasses -> DownloadCaught
      [] cls = "VideoFile" ->
            IF op = "download" THEN DownloadCaught \cup VideoCaught ELSE VideoCaught
      [] cls \in WebClasses -> WebCaught
      [] cls = "_ExerciseGraphieFile" -> GraphieCaught
      [] OTHER -> {}

(* raise x in the thread P *)
Throw(P, x) == [P EXCEPT !.pc = "raise", !.exc = x]
(* what the collaborators may answer to the thread of self *)
StepEnv(self) == Env([self EXCEPT !.filename = None])

(* File.get_filename, entry *)
Call(d) ==
    /\ procs[d].pc = "idle"
    /\ procs' = [procs EXCEPT ![d] =
                    IF files[d].filename # None
                    THEN [@ EXCEPT !.pc = "done", !.filename = files[d].filename]
                    ELSE [@ EXCEPT !.pc = "lookup", !.op = FirstOp(files[d].cls)]]
    /\ UNCHANGED <<files, dicts, FILECACHE, storage, FAILED_FILES, UPDATE, COMPRESS, last,
                   tmpdir>>

(* key = ...; if not config.UPDATE and FILECACHE.get(key): return ...      *)
Lookup(d) ==
    LET P == procs[d]
        f == files[d]
        key == IF P.op = "compress" THEN CompressKey(f, f.filename) ELSE AcquireKey(f)
    IN  /\ P.pc = "lookup"
        /\ procs' = [procs EXCEPT ![d] =
                        IF CacheHit(World, key)
                        THEN [P EXCEPT !.pc = "return", !.key = key,
                                       !.filename = CacheGet(World, key)]
                        ELSE [P EXCEPT !.pc = "prepare", !.key = key]]
        /\ UNCHANGED <<files, dicts, FILECACHE, storage, FAILED_FILES, UPDATE, COMPRESS,
                       last, tmpdir>>

(* the statements before the tool runs: the temp file is made or its path  *)
(* is computed and cleared                                                 *)
Prepare(d) ==
    LET P == procs[d]
        f == files[d]
        named == NamedTemporaryFile(IF P.op = "base64" THEN f.encoding.mime ELSE OpExt(P.op))
        web == WebTempPath(f.web_url)
        sub == SubtitleTempPath(f.youtube_id)
    IN  /\ P.pc = "prepare"
        /\ CASE P.op \in {"download", "graphie"} ->
                    /\ procs' = [procs EXCEPT ![d].pc = "tool"]
                    /\ UNCHANGED <<tmpdir, dicts>>
             [] P.op = "base64" /\ f.encoding.mime = "" ->
                    /\ procs' = [procs EXCEPT ![d] = Throw(P, "AttributeError")]
                    /\ UNCHANGED <<tmpdir, dicts>>
             [] P.op = "base64" /\ f.encoding.mime \notin {"", PNG, JPG, JPEG} ->
                    /\ procs' = [procs EXCEPT ![d] = Throw(P, "AssertionError")]
                    /\ UNCHANGED <<tmpdir, dicts>>
             [] P.op = "web" ->
                    /\ procs' = [procs EXCEPT ![d] = [P EXCEPT !.pc = "tool", !.path = web]]
                    /\ dicts' = [dicts EXCEPT ![f.download_settings] =
                                    DictSet(@, "outtmpl", web)]
                    /\ tmpdir' = Remove(tmpdir, web)
             [] P.op = "subtitle" ->
                    /\ procs' = [procs EXCEPT ![d] = [P EXCEPT !.pc = "tool", !.path = sub]]
                    /\ tmpdir' = Remove(tmpdir, sub)
                    /\ UNCHANGED dicts
             [] OTHER ->
                    /\ procs' = [procs EXCEPT ![d] = [P EXCEPT !.pc = "tool", !.path = named]]
                    /\ tmpdir' = (named :> <<>>) @@ tmpdir
                    /\ UNCHANGED dicts
        /\ UNCHANGED <<files, FILECACHE, storage, FAILED_FILES, UPDATE, COMPRESS, last>>

(* the source is read into the anonymous temp file, or the tool writes its *)
(* output under the temp path                                              *)
RunTool(d) ==
    LET P == procs[d]
        f == files[d]
    IN  /\ P.pc = "tool"
        /\ \E e \in StepEnv(f) :
              LET r == write_and_get_hash(f.path, <<>>, NoHash, e.f1, World)
                  ext0 == Lower(SplitExt(f.path))
                  extension == IF ext0 \in FileFormats THEN ext0 ELSE f.default_ext
                  r1 == write_and_get_hash(PathPlus(f.path, ".svg"), <<>>, NoHash, e.f1, World)
                  r2 == write_and_get_hash(PathPlus(f.path, "-data.json"),
                                           r1.file \o GRAPHIE_DELIMITER,
                                           Md5Update(r1.hash, GRAPHIE_DELIMITER), e.f2, r1.w)
                  written == IF P.op = "subtitle"
                             THEN SubtitleDownloadPath(P.path, f.language)
                             ELSE P.path
                  next == Sequel(P.op, "tool")
              IN  CASE P.op = "download" ->
                          /\ procs' = [procs EXCEPT ![d] =
                                IF r.exc # "none" THEN Throw(P, r.exc)
                                ELSE IF ext0 \notin FileFormats /\ f.default_ext = None
                                THEN Throw(P, "IOError")
                                ELSE [P EXCEPT !.pc = next, !.src = r.file,
                                         !.filename = HexDigest(r.hash) \o "." \o extension]]
                          /\ UNCHANGED tmpdir
                    [] P.op = "graphie" ->
                          /\ procs' = [procs EXCEPT ![d] =
                                IF r1.exc # "none" THEN Throw(P, r1.exc)
                                ELSE IF r2.exc # "none" THEN Throw(P, r2.exc)
                                ELSE [P EXCEPT !.pc = next, !.src = r2.file,
                                         !.filename = HexDigest(r2.hash) \o "." \o GRAPHIE]]
                          /\ UNCHANGED tmpdir
                    [] P.op = "subtitle" /\ e.tool.err = "IOError" ->
                          /\ procs' = [procs EXCEPT ![d] =
                                          [P EXCEPT !.pc = next, !.path = written]]
                          /\ UNCHANGED tmpdir
                    [] P.op \in ToolOps /\ e.tool.err \notin {"none", "IOError"} ->
                          /\ procs' = [procs EXCEPT ![d] = Throw(P, e.tool.err)]
                          /\ UNCHANGED tmpdir
                    [] OTHER ->
                          /\ procs' = [procs EXCEPT ![d] =
                                          [P EXCEPT !.pc = next, !.path = written]]
                          /\ tmpdir' = (written :> e.tool.data) @@ tmpdir
        /\ UNCHANGED <<files, dicts, FILECACHE, storage, FAILED_FILES, UPDATE, COMPRESS, last>>

(* filename = "{}.{}".format(get_hash(path), ext) *)
Hash(d) ==
    LET P == procs[d]
    IN  /\ P.pc = "hash"
        /\ procs' = [procs EXCEPT ![d] =
                        IF P.path \notin DOMAIN tmpdir THEN Throw(P, "IOError")
                        ELSE [P EXCEPT !.pc = Sequel(P.op, "hash"),
                                 !.filename = get_hash(tmpdir[P.path]) \o "." \o OpExt(P.op)]]
        /\ UNCHANGED <<files, dicts, FILECACHE, storage, FAILED_FILES, UPDATE, COMPRESS,
                       last, tmpdir>>

(* the source is opened for reading, then                                  *)
(* open(config.get_storage_path(filename), 'wb') creates or truncates the  *)
(* file under its final name                                               *)
Open(d) ==
    LET P == procs[d]
    IN  /\ P.pc = "open"
        /\ IF P.op \in ToolOps /\ P.path \notin DOMAIN tmpdir
           THEN /\ procs' = [procs EXCEPT ![d] = Throw(P, "IOError")]
                /\ UNCHANGED storage
           ELSE /\ procs' = [procs EXCEPT ![d] =
                                [P EXCEPT !.pc = Sequel(P.op, "open"),
                                          !.src = IF P.op \in ToolOps THEN tmpdir[P.path]
                                                  ELSE P.src]]
                /\ storage' = (P.filename :> <<>>) @@ storage
        /\ UNCHANGED <<files, dicts, FILECACHE, FAILED_FILES, UPDATE, COMPRESS, last, tmpdir>>

(* shutil.copyfileobj(srcfile, destf) *)
Copy(d) ==
    LET P == procs[d]
    IN  /\ P.pc = "copy"
        /\ procs' = [procs EXCEPT ![d].pc = Sequel(P.op, "copy")]
        /\ storage' = (P.filename :> P.src) @@ storage
        /\ UNCHANGED <<files, dicts, FILECACHE, FAILED_FILES, UPDATE, COMPRESS, last, tmpdir>>

(* os.unlink(tempf.name) *)
Unlink(d) ==
    LET P == procs[d]
    IN  /\ P.pc = "unlink"
        /\ procs' = [procs EXCEPT ![d] = [P EXCEPT !.pc = Sequel(P.op, "unlink"),
                                                   !.path = None]]
        /\ tmpdir' = Remove(tmpdir, P.path)
        /\ UNCHANGED <<files, dicts, FILECACHE, storage, FAILED_FILES, UPDATE, COMPRESS, last>>

(* FILECACHE.set(key, bytes(filename, "utf-8")) *)
Set(d) ==
    LET P == procs[d]
    IN  /\ P.pc = "set"
        /\ procs' = [procs EXCEPT ![d].pc = Sequel(P.op, "set")]
        /\ FILECACHE' = (P.key :> P.filename) @@ FILECACHE
        /\ UNCHANGED <<files, dicts, storage, FAILED_FILES, UPDATE, COMPRESS, last, tmpdir>>

(* the helper returns: self.filename = ...; VideoFile goes on to           *)
(* compress_video_file when options were given or COMPRESS is set          *)
Return(d) ==
    LET P == procs[d]
        f == files[d]
    IN  /\ P.pc = "return"
        /\ files' = [files EXCEPT ![d].filename = P.filename]
        /\ procs' = [procs EXCEPT ![d] =
                        IF /\ f.cls = "VideoFile" /\ P.op = "download"
                           /\ P.filename # None
                           /\ (f.ffmpeg_settings # <<>> \/ COMPRESS)
                        THEN [P EXCEPT !.pc = "lookup", !.op = "compress", !.path = None]
                        ELSE [P EXCEPT !.pc = "done"]]
        /\ UNCHANGED <<dicts, FILECACHE, storage, FAILED_FILES, UPDATE, COMPRESS, last, tmpdir>>

(* the exception reaches process_file: caught (self.error = err;           *)
(* config.FAILED_FILES.append(self)) or passed on to the caller            *)
Except(d) ==
    LET P == procs[d]
        f == files[d]
    IN  /\ P.pc = "raise"
        /\ IF P.exc \in StepCaught(f.cls, P.op)
           THEN /\ files' = [files EXCEPT ![d].error = P.exc]
                /\ FAILED_FILES' = Append(FAILED_FILES, d)
                /\ procs' = [procs EXCEPT ![d] = [P EXCEPT !.pc = "done", !.exc = "none",
                                                           !.filename = None]]
           ELSE /\ procs' = [procs EXCEPT ![d] = [P EXCEPT !.pc = "done", !.filename = None]]
                /\ UNCHANGED <<files, FAILED_FILES>>
        /\ UNCHANGED <<dicts, FILECACHE, storage, UPDATE, COMPRESS, last, tmpdir>>

InitSteps ==
    /\ \E F \in Families : \E t \in [Ids -> F] :
          files = [i \in Ids |-> [t[i] EXCEPT !.id = i]]
    /\ dicts = InitDicts
    /\ FILECACHE = << >>
    /\ storage = << >>
    /\ FAILED_FILES = << >>
    /\ UPDATE \in BOOLEAN
    /\ COMPRESS \in BOOLEAN
    /\ last = NoCall
    /\ procs = [d \in Ids |-> NoProc]
    /\ tmpdir = << >>

NextSteps ==
    \/ \E d \in Ids : Call(d)
    \/ \E d \in Ids : Lookup(d)
    \/ \E d \in Ids : Prepare(d)
    \/ \E d \in Ids : RunTool(d)
    \/ \E d \in Ids : Hash(d)
    \/ \E d \in Ids : Open(d)
    \/ \E d \in Ids : Copy(d)
    \/ \E d \in Ids : Unlink(d)
    \/ \E d \in Ids : Set(d)
    \/ \E d \in Ids : Return(d)
    \/ \E d \in Ids : Except(d)

SpecSteps == InitSteps /\ [][NextSteps]_vars

-----------------------------------------------------------------------------
(* Properties of the statement-by-statement specification *)

(* the thread of d is inside get_filename *)
Running(d) == procs[d].pc \notin {"idle", "done"}
(* the file under the name n in storage holds the bytes its name is the    *)
(* digest of                                                               *)
Complete(n) == \E ext \in FileFormats : n = get_hash(storage[n]) \o "." \o ext

(* C12: at every moment, between any two statements of concurrent calls,   *)
(* the filename of every resolved descriptor and the value of every        *)
(* FILECACHE entry name a file that exists in storage: the file is opened  *)
(* and copied before FILECACHE.set and before self.filename is assigned.   *)
C12_ResolvedIsStored ==
    /\ \A d \in Ids : files[d].filename # None => files[d].filename \in DOMAIN storage
    /\ \A k \in DOMAIN FILECACHE : FILECACHE[k] \in DOMAIN storage

(* one descriptor was resolved by a fetch and another from the cache entry *)
(* the first wrote                                                         *)
C12_Witness ==
    \E d1, d2 \in Ids :
        /\ d1 # d2
        /\ procs[d1].pc = "done" /\ procs[d2].pc = "done"
        /\ procs[d1].op = "download" /\ procs[d2].op = "download"
        /\ procs[d1].src # <<>>
        /\ procs[d2].src = <<>>
        /\ files[d2].filename # None
        /\ files[d2].filename = files[d1].filename
        /\ FILECACHE[procs[d2].key] = files[d2].filename

(* C13: at every moment the file under a canonical filename in storage is  *)
(* either absent or complete: no reader sees it empty or half written,     *)
(* also while a thread stores a name that exists or two threads store the  *)
(* same name.                                                              *)
C13_StoredFilesAreComplete ==
    \A n \in DOMAIN storage : Complete(n)

(* C14: two threads that are inside get_filename at the same time never    *)
(* work on the same temp path.                                             *)
C14_TempPathsAreUnique ==
    \A d1, d2 \in Ids :
        (/\ d1 # d2
         /\ Running(d1) /\ Running(d2)
         /\ procs[d1].path # None /\ procs[d2].path # None)
        => procs[d1].path # procs[d2].path

(* C15: when get_filename has ended, with a filename, with a recorded      *)
(* failure or with an exception, the temp file it worked on is gone.       *)
C15_TempFilesAreDeleted ==
    \A d \in Ids :
        (procs[d].pc = "done" /\ procs[d].path # None) => procs[d].path \notin DOMAIN tmpdir

-----------------------------------------------------------------------------
(* Properties of whole calls, continued *)

(* the call went to its source: one transfer or one local read *)
Fetched(obs) == obs.transfers + obs.reads = 1

(* C16: config.FAILED_FILES is append-only: a step leaves the list as it   *)
(* is or appends the descriptor whose get_filename call has just failed;   *)
(* entries are never removed, replaced or reordered.                       *)
C16_FailedFilesAppendOnly ==
    [][\/ FAILED_FILES' = FAILED_FILES
       \/ \E d \in Ids :
             /\ Resolving(d)
             /\ last'.ret = None
             /\ files'[d].error # None
             /\ FAILED_FILES' = Append(FAILED_FILES, d)]_vars

(* a second descriptor has failed after a first one *)
C16_Witness ==
    /\ last.op = "get_filename"
    /\ last.ret = None
    /\ Len(FAILED_FILES) = 2
    /\ FAILED_FILES[1] # FAILED_FILES[2]
    /\ FAILED_FILES[2] = last.d

(* C17: get_filename on an unresolved VideoFile runs the transcoder only   *)
(* if the download has produced a filename and ffmpeg_settings were given  *)
(* or COMPRESS is set; when the transcoder has produced its output the     *)
(* downloaded file is still in storage under its own digest, the output is *)
(* in storage and the descriptor's filename is the digest of the output.   *)
C17_TranscodeOnlyWhenAsked ==
    [][\A d \in Ids :
          (Resolving(d) /\ files[d].cls = "VideoFile" /\ files[d].filename = None) =>
              LET f == files[d]
                  dk == DownloadKey(f)
                  pre == FILECACHE'[dk]
              IN  /\ last'.tools >= 1 =>
                        /\ f.ffmpeg_settings # <<>> \/ COMPRESS
                        /\ dk \in DOMAIN FILECACHE'
                        /\ pre \in DOMAIN storage'
                  /\ (last'.tools = 1 /\ last'.exc = "none" /\ last'.ret # None) =>
                        /\ pre = get_hash(storage'[pre]) \o "." \o Lower(SplitExt(f.path))
                        /\ last'.ret \in DOMAIN storage'
                        /\ last'.ret = get_hash(storage'[last'.ret]) \o "." \o MP4
                        /\ files'[d].filename = last'.ret
                        /\ FILECACHE'[CompressKey(f, pre)] = last'.ret]_vars

(* a video was downloaded and transcoded; both files are in storage under  *)
(* different names                                                         *)
C17_Witness ==
    /\ last.op = "get_filename"
    /\ files[last.d].cls = "VideoFile"
    /\ last.transfers = 1
    /\ last.tools = 1
    /\ last.ret # None
    /\ last.ret \in DOMAIN storage
    /\ DownloadKey(files[last.d]) \in DOMAIN FILECACHE
    /\ FILECACHE[DownloadKey(files[last.d])] \in DOMAIN storage
    /\ FILECACHE[DownloadKey(files[last.d])] # last.ret

(* C18: when youtube_dl reports DownloadError to get_filename on a         *)
(* WebVideoFile, the call returns None without raising, the descriptor's   *)
(* error is set, the descriptor is appended once to FAILED_FILES, and      *)
(* storage and FILECACHE are as before.                                    *)
C18_ToolFailureIsRecorded ==
    [][\A d \in Ids :
          (/\ Resolving(d)
           /\ files[d].cls \in WebClasses
           /\ files[d].filename = None
           /\ last'.tools = 1
           /\ last'.exc = "DownloadError" \/ files'[d].error = "DownloadError"
           /\ last'.exc # "none" \/ last'.ret = None)
          => /\ last'.exc = "none"
             /\ last'.ret = None
             /\ files'[d].filename = None
             /\ files'[d].error = "DownloadError"
             /\ FAILED_FILES' = Append(FAILED_FILES, d)
             /\ storage' = storage
             /\ FILECACHE' = FILECACHE]_vars

(* youtube_dl failed on a WebVideoFile after another download had filled   *)
(* storage and the cache                                                   *)
C18_Witness ==
    /\ last.op = "get_filename"
    /\ files[last.d].cls \in WebClasses
    /\ last.tools = 1
    /\ last.ret = None
    /\ files[last.d].error = "DownloadError"
    /\ Len(FAILED_FILES) = 1
    /\ FAILED_FILES[1] = last.d
    /\ DOMAIN storage # {}
    /\ DOMAIN FILECACHE # {}

(* C19: a download that went to its source names the file by the suffix of *)
(* the path, in lower case, when the suffix is a file format, and by the   *)
(* default extension of the class otherwise; with neither it fails and     *)
(* writes nothing to storage and nothing to the cache.                     *)
C19_ExtensionRule ==
    [][\A d \in Ids :
          (/\ Resolving(d)
           /\ files[d].cls \in DownloadClasses
           /\ files[d].filename = None
           /\ Fetched(last'))
          => LET f == files[d]
                 suffix == Lower(SplitExt(f.path))
                 expected == IF suffix \in FileFormats THEN suffix ELSE f.default_ext
             IN  /\ last'.ret # None =>
                       /\ expected # None
                       /\ last'.ret \in DOMAIN storage'
                       /\ last'.ret = get_hash(storage'[last'.ret]) \o "." \o expected
                 /\ expected = None =>
                       /\ last'.ret = None
                       /\ files'[d].filename = None
                       /\ last'.writes = 0 /\ last'.sets = 0
                       /\ storage' = storage
                       /\ FILECACHE' = FILECACHE]_vars

(* a source whose path has no recognised suffix was fetched and stored     *)
(* under the default extension of its class                                *)
C19_Witness ==
    /\ last.op = "get_filename"
    /\ files[last.d].cls \in DownloadClasses
    /\ Lower(SplitExt(files[last.d].path)) \notin FileFormats
    /\ Fetched(last)
    /\ last.ret # None
    /\ last.ret = get_hash(storage[last.ret]) \o "." \o files[last.d].default_ext

(* C20: when two descriptors with different paths and the same extension   *)
(* are fetched one after the other and the sources deliver the same bytes, *)
(* both get the same filename; storage holds one file with these bytes and *)
(* FILECACHE holds one entry per path, both naming that file.              *)
C20_ContentDedup ==
    [][\A d1, d2 \in Ids :
          (/\ d1 # d2
           /\ files[d1].cls \in DownloadClasses /\ files[d2].cls \in DownloadClasses
           /\ files[d1].path # files[d2].path
           /\ Lower(SplitExt(files[d1].path)) = Lower(SplitExt(files[d2].path))
           /\ files[d1].default_ext = files[d2].default_ext
           /\ Resolved(d1) /\ last.before = None /\ Fetched(last) /\ last.ret # None
           /\ files[d2].filename = None
           /\ Resolving(d2) /\ Fetched(last') /\ last'.ret # None
           /\ storage'[last'.ret] = storage[last.ret])
          => /\ last'.ret = last.ret
             /\ files'[d1].filename = files'[d2].filename
             /\ \A n \in DOMAIN storage' : storage'[n] = storage'[last'.ret] => n = last'.ret
             /\ DownloadKey(files[d1]) # DownloadKey(files[d2])
             /\ FILECACHE'[DownloadKey(files[d1])] = last'.ret
             /\ FILECACHE'[DownloadKey(files[d2])] = last'.ret]_vars

(* two descriptors with different paths are resolved to one file, named by *)
(* two cache entries                                                       *)
C20_Witness ==
    /\ last.op = "get_filename"
    /\ Fetched(last)
    /\ last.ret # None
    /\ Cardinality(DOMAIN storage) = 1
    /\ \E d1 \in Ids :
          /\ d1 # last.d
          /\ files[d1].path # files[last.d].path
          /\ files[d1].filename = last.ret
          /\ DownloadKey(files[d1]) # DownloadKey(files[last.d])
          /\ FILECACHE[DownloadKey(files[d1])] = last.ret
          /\ FILECACHE[DownloadKey(files[last.d])] = last.ret

(* C21: get_filename on a WebVideoFile leaves the download_settings dict   *)
(* as the caller supplied it; with UPDATE off, when a descriptor has been  *)
(* downloaded and the next call resolves another descriptor of the same    *)
(* URL that holds the same dict object, the second call computes the key   *)
(* of the first, does not run youtube_dl and returns the same filename.    *)
C21_OptionsLeftAsFound ==
    [][\A d1, d2 \in Ids :
          (/\ d1 # d2
           /\ files[d1].cls \in WebClasses /\ files[d2].cls \in WebClasses
           /\ files[d1].web_url = files[d2].web_url
           /\ files[d1].download_settings = files[d2].download_settings
           /\ ~UPDATE
           /\ Resolved(d1) /\ last.before = None /\ last.tools = 1 /\ last.ret # None
           /\ files[d2].filename = None
           /\ Resolving(d2))
          => /\ dicts' = dicts
             /\ dicts[files[d1].download_settings] = InitDicts[files[d1].download_settings]
             /\ last'.tools = 0
             /\ last'.exc = "none"
             /\ last'.ret = last.ret]_vars

====
